---- MODULE Spec2Model ----
(***************************************************************************)
(* Model of server/services/store/sqlstore/data_migrations.go: the two    *)
(* one-shot data migrations runUniqueIDsMigration and                     *)
(* runCategoryUuidIdMigration, the transaction they run in, and the       *)
(* committed database they rewrite.                                       *)
(*                                                                         *)
(* The committed database is the variables blocks, categories,            *)
(* category_blocks and system_settings.  A transaction works on a private *)
(* copy (tx) that replaces the committed database only on Commit.         *)
(* A table is a sequence of rows: the position of a row is its identity   *)
(* and the order of the sequence is the listing order of the engine.      *)
(***************************************************************************)
EXTENDS Integers, Sequences, FiniteSets, TLC

\* ---------------------------------------------------------------- bounds
MaxBlocks == 4
MaxCategories == 2
MaxCategoryBlocks == 2

\* ------------------------------------------------------------- constants
UniqueIDsMigrationKey == "UniqueIDsMigrationComplete"
CategoryUUIDIDMigrationKey == "CategoryUuidIdMigrationComplete"
categoriesUUIDIDMigrationRequiredVersion == 16
uniqueIDsMigrationRequiredVersion == 14

\* --------------------------------------------------------------- domains
BlockIDs == 1..2
Workspaces == 1..3
CategoryBlockIDs == 1..MaxCategoryBlocks
SchemaVersions == {uniqueIDsMigrationRequiredVersion - 1,
                   uniqueIDsMigrationRequiredVersion,
                   categoriesUUIDIDMigrationRequiredVersion}
StoredFlagValues == {"", "false", "garbage"}
MigrationKeys == {UniqueIDsMigrationKey, CategoryUUIDIDMigrationKey}

VARIABLES
    schemaVersion,      \* version reported by the schema migration runner
    blocks,             \* committed blocks table: Seq of [id, workspace_id]
    categories,         \* committed categories table: Seq of [id]
    category_blocks,    \* committed category_blocks table: Seq of [id, category_id]
    system_settings,    \* committed system settings: key -> stored string
    tx,                 \* the transaction of the current invocation
    pc,                 \* position of the running invocation, "idle" when none
    migration,          \* which migration the last invocation ran
    loop,               \* local variables of the running invocation
    result,             \* what the last invocation returned
    stmts,              \* statements issued on the tables by this invocation
    closes,             \* Commit/Rollback calls made on tx by this invocation
    openRows,           \* result sets opened on tx and not closed
    rowsErr,            \* a rows.Next() loop of this invocation ended on an error
    commits,            \* commits of each migration's rewrite so far
    pre,                \* committed database when the invocation started
    orig                \* committed database of the initial state

vars == <<schemaVersion, blocks, categories, category_blocks, system_settings,
          tx, pc, migration, loop, result, stmts, closes, openRows,
          rowsErr, commits, pre, orig>>

\* --------------------------------------------------------------- helpers
Range(s) == {s[i] : i \in DOMAIN s}

Max(S) == IF S = {} THEN 0 ELSE CHOOSE x \in S : \A y \in S : y <= x

SeqsUpTo(S, n) == UNION {[1..k -> S] : k \in 0..n}

BlockKey(b) == <<b.workspace_id, b.id>>

Database == [blocks |-> blocks, categories |-> categories,
             category_blocks |-> category_blocks,
             system_settings |-> system_settings]

NoTx == [state |-> "none", blocks |-> <<>>, categories |-> <<>>,
         category_blocks |-> <<>>, system_settings |-> <<>>]

NoLoop == [setting |-> "", groupsLeft |-> {}, blocksByID |-> <<>>,
           current |-> <<>>, categoryIDs |-> <<>>, oldID |-> 0,
           builtMap |-> <<>>]

\* Every identifier in use anywhere: committed, in the transaction, or
\* already generated for the mapping being built.
UsedIDs(ids) ==
    ids \cup {blocks[i].id : i \in DOMAIN blocks}
        \cup {categories[i].id : i \in DOMAIN categories}
        \cup {category_blocks[i].id : i \in DOMAIN category_blocks}
        \cup {category_blocks[i].category_id : i \in DOMAIN category_blocks}
        \cup {tx.blocks[i].id : i \in DOMAIN tx.blocks}
        \cup {tx.categories[i].id : i \in DOMAIN tx.categories}
        \cup {tx.category_blocks[i].id : i \in DOMAIN tx.category_blocks}

\* utils.NewID: a random identifier that collides with no identifier in use.
NewID(ids) == Max(UsedIDs(ids)) + 1

\* strconv.ParseBool: the value, and false for a string it cannot parse.
ParseBool(str) == str \in {"1", "t", "T", "TRUE", "true", "True"}

\* strconv.FormatBool
FormatBool(b) == IF b THEN "true" ELSE "false"

\* GetSystemSetting: the stored string, "" when the key is absent.
GetSystemSetting(settings, key) ==
    IF key \in DOMAIN settings THEN settings[key] ELSE ""

\* setSystemSetting: insert or replace the key.
setSystemSetting(settings, key, value) ==
    [k \in (DOMAIN settings) \cup {key} |->
        IF k = key THEN value ELSE settings[k]]

\* ensureMigrationsAppliedUpToVersion: nil iff the schema has reached version.
ensureMigrationsAppliedUpToVersion(current, version) == current >= version

\* ------------------------------------------------------- the transaction
\* db.BeginTx: a private copy of the committed database.
BeginTx == [state |-> "open", blocks |-> blocks, categories |-> categories,
            category_blocks |-> category_blocks,
            system_settings |-> system_settings]

\* What remains of the transaction once it is closed.
Closed(how) == [NoTx EXCEPT !.state = how]

\* tx.Rollback: the private copy is discarded.
Rollback ==
    /\ tx' = Closed("rolledback")
    /\ closes' = closes + 1
    /\ openRows' = 0
    /\ UNCHANGED <<blocks, categories, category_blocks, system_settings, commits>>

\* tx.Commit succeeding: the private copy becomes the committed database.
CommitOK ==
    /\ blocks' = tx.blocks
    /\ categories' = tx.categories
    /\ category_blocks' = tx.category_blocks
    /\ system_settings' = tx.system_settings
    /\ tx' = Closed("committed")
    /\ closes' = closes + 1
    /\ openRows' = 0
    /\ commits' = [commits EXCEPT ![migration] = @ + 1]

\* tx.Commit failing: the transaction is over, and the store either dropped
\* it or made all of it visible before the error reached the caller.
CommitFail ==
    /\ tx' = Closed("commitfailed")
    /\ closes' = closes + 1
    /\ openRows' = 0
    /\ \/ UNCHANGED <<blocks, categories, category_blocks, system_settings, commits>>
       \/ /\ blocks' = tx.blocks
          /\ categories' = tx.categories
          /\ category_blocks' = tx.category_blocks
          /\ system_settings' = tx.system_settings
          /\ commits' = [commits EXCEPT ![migration] = @ + 1]

\* The invocation returns without touching its transaction.
LeaveTx ==
    UNCHANGED <<blocks, categories, category_blocks, system_settings, tx,
                closes, openRows, commits>>

\* return err / return nil
Return(r) ==
    /\ pc' = "idle"
    /\ result' = r
    /\ loop' = NoLoop

\* ----------------------------------------------------------------- Init
BlockRows == [id : BlockIDs, workspace_id : Workspaces]

CategoryBlockRows(catIDs) == [id : CategoryBlockIDs, category_id : catIDs]

\* blocks has the primary key (workspace_id, id); categories and
\* category_blocks have the primary key id; every category_blocks row
\* references a categories row.  Identifiers are compared only for equality,
\* so the categories rows are numbered in listing order.
InitBlocks ==
    {b \in SeqsUpTo(BlockRows, MaxBlocks) :
        \A i, j \in DOMAIN b : BlockKey(b[i]) = BlockKey(b[j]) => i = j}

InitCategories == {[i \in 1..k |-> [id |-> i]] : k \in 0..MaxCategories}

InitCategoryBlocks(cats) ==
    {cb \in SeqsUpTo(CategoryBlockRows({cats[i].id : i \in DOMAIN cats}),
                     MaxCategoryBlocks) :
        \A i, j \in DOMAIN cb : cb[i].id = cb[j].id => i = j}

\* No migration has completed: both keys are absent, or both hold the same
\* stored string that does not parse to true.
InitSettings == {<<>>} \cup {[k \in MigrationKeys |-> v] : v \in StoredFlagValues}

Init ==
    /\ schemaVersion \in SchemaVersions
    /\ \/ /\ blocks \in InitBlocks
          /\ categories = <<>>
          /\ category_blocks = <<>>
       \/ /\ blocks = <<>>
          /\ categories \in InitCategories
          /\ category_blocks \in InitCategoryBlocks(categories)
    /\ system_settings \in InitSettings
    /\ tx = NoTx
    /\ pc = "idle"
    /\ migration = "none"
    /\ loop = NoLoop
    /\ result = "none"
    /\ stmts = 0
    /\ closes = 0
    /\ openRows = 0
    /\ rowsErr = FALSE
    /\ commits = [m \in {"unique", "category"} |-> 0]
    /\ pre = Database
    /\ orig = Database

\* ----------------------------------------------------------- invocation
\* The application's startup calls one of the two migrations.
Invoke(m) ==
    /\ pc = "idle"
    /\ migration' = m
    /\ pc' = "gate"
    /\ result' = "running"
    /\ loop' = NoLoop
    /\ tx' = NoTx
    /\ rowsErr' = FALSE
    /\ stmts' = 0
    /\ closes' = 0
    /\ openRows' = 0
    /\ pre' = Database
    /\ UNCHANGED <<schemaVersion, blocks, categories, category_blocks,
                   system_settings, commits, orig>>

FrameButRows == UNCHANGED <<schemaVersion, migration, pre, orig>>

Frame == FrameButRows /\ UNCHANGED rowsErr

\* ------------------------------------------------ runUniqueIDsMigration
\* getBlocksWithSameID: the rows of blocks whose id occurs more than once,
\* in listing order.
getBlocksWithSameID(tbl) ==
    SelectSeq(tbl, LAMBDA b :
        Cardinality({i \in DOMAIN tbl : tbl[i].id = b.id}) > 1)

\* replaceBlockID: UPDATE blocks SET id = newID
\*                 WHERE id = currentID AND workspace_id = workspaceID
replaceBlockID(tbl, currentID, newID, workspaceID) ==
    [i \in DOMAIN tbl |->
        IF tbl[i].id = currentID /\ tbl[i].workspace_id = workspaceID
        THEN [tbl[i] EXCEPT !.id = newID]
        ELSE tbl[i]]

\* blocksByID[block.ID] = append(blocksByID[block.ID], block)
GroupBlocksByID(list) ==
    [id \in {list[i].id : i \in DOMAIN list} |->
        SelectSeq(list, LAMBDA b : b.id = id)]

\* Mutant: the first two rows of a group are skipped.
BlocksToReplace_SkipTwo(group) == IF Len(group) > 2 THEN Tail(Tail(group)) ELSE <<>>

\* Mutant: the first row of a group is replaced like the others.
BlocksToReplace_NoSkip(group) == group

\* for i, block := range blocks { if i == 0 { continue } ... }
BlocksToReplace(group) == Tail(group)

\* Mutant: the stored flag is compared with "1" instead of being parsed.
hasAlreadyRun_ComparedToOne(setting) == setting = "1"

\* Mutant: a flag that cannot be parsed counts as completed.
hasAlreadyRun_UnparsableIsDone(setting) ==
    ParseBool(setting) \/ setting \notin {"0", "f", "F", "FALSE", "false", "False"}

\* hasAlreadyRun, _ := strconv.ParseBool(setting)
hasAlreadyRun(setting) == ParseBool(setting)

runUniqueIDsMigration_ensureMigrations ==
    /\ pc = "gate" /\ migration = "unique"
    /\ IF ensureMigrationsAppliedUpToVersion(schemaVersion,
                                             uniqueIDsMigrationRequiredVersion)
       THEN pc' = "getSetting" /\ UNCHANGED <<result, loop>>
       ELSE Return("schema version error")
    /\ LeaveTx /\ UNCHANGED stmts /\ Frame

runUniqueIDsMigration_GetSystemSetting ==
    /\ pc = "getSetting" /\ migration = "unique"
    /\ \/ Return("cannot get migration state")
       \/ LET setting == GetSystemSetting(system_settings, UniqueIDsMigrationKey)
          IN IF hasAlreadyRun(setting)
             THEN Return("nil")
             ELSE /\ pc' = "beginTx"
                  /\ loop' = [loop EXCEPT !.setting = setting]
                  /\ UNCHANGED result
    /\ LeaveTx /\ UNCHANGED stmts /\ Frame

runUniqueIDsMigration_BeginTx ==
    /\ pc = "beginTx" /\ migration = "unique"
    /\ \/ /\ Return("txErr")
          /\ UNCHANGED tx
       \/ /\ tx' = BeginTx
          /\ pc' = "getBlocksWithSameID"
          /\ UNCHANGED <<result, loop>>
    /\ UNCHANGED <<blocks, categories, category_blocks, system_settings,
                   closes, openRows, commits, stmts>>
    /\ Frame

runUniqueIDsMigration_getBlocksWithSameID ==
    /\ pc = "getBlocksWithSameID" /\ migration = "unique"
    /\ stmts' = stmts + 1
    /\ \/ /\ Rollback
          /\ Return("cannot get blocks with same ID")
       \/ /\ LET byID == GroupBlocksByID(getBlocksWithSameID(tx.blocks))
             IN loop' = [loop EXCEPT !.blocksByID = byID,
                                     !.groupsLeft = DOMAIN byID]
          /\ pc' = "replace"
          /\ UNCHANGED result
          /\ LeaveTx
    /\ Frame

\* for _, blocks := range blocksByID: the next group, in map order.
runUniqueIDsMigration_rangeBlocksByID ==
    /\ pc = "replace" /\ migration = "unique"
    /\ loop.current = <<>>
    /\ \E id \in loop.groupsLeft :
          loop' = [loop EXCEPT !.groupsLeft = @ \ {id},
                               !.current = BlocksToReplace(loop.blocksByID[id])]
    /\ UNCHANGED <<pc, result, stmts>>
    /\ LeaveTx /\ Frame

runUniqueIDsMigration_replaceBlockID ==
    /\ pc = "replace" /\ migration = "unique"
    /\ loop.current # <<>>
    /\ stmts' = stmts + 1
    /\ LET block == Head(loop.current)
           newID == NewID({})
       IN \/ /\ Rollback
             /\ Return("cannot replace blockID")
          \/ /\ tx' = [tx EXCEPT !.blocks =
                         replaceBlockID(tx.blocks, block.id, newID,
                                        block.workspace_id)]
             /\ loop' = [loop EXCEPT !.current = Tail(@)]
             /\ UNCHANGED <<pc, result, blocks, categories, category_blocks,
                            system_settings, closes, openRows, commits>>
    /\ Frame

\* Mutant: the unique-IDs migration marks the category migration's key.
runUniqueIDsMigration_setSystemSetting_WrongKey ==
    /\ pc = "replace" /\ migration = "unique"
    /\ loop.current = <<>> /\ loop.groupsLeft = {}
    /\ \/ /\ Rollback
          /\ Return("cannot mark migration as completed")
       \/ /\ tx' = [tx EXCEPT !.system_settings =
                      setSystemSetting(tx.system_settings,
                                       CategoryUUIDIDMigrationKey,
                                       FormatBool(TRUE))]
          /\ pc' = "commit"
          /\ UNCHANGED <<result, loop, blocks, categories, category_blocks,
                         system_settings, closes, openRows, commits>>
    /\ UNCHANGED stmts /\ Frame

runUniqueIDsMigration_setSystemSetting ==
    /\ pc = "replace" /\ migration = "unique"
    /\ loop.current = <<>> /\ loop.groupsLeft = {}
    /\ \/ /\ Rollback
          /\ Return("cannot mark migration as completed")
       \/ /\ tx' = [tx EXCEPT !.system_settings =
                      setSystemSetting(tx.system_settings, UniqueIDsMigrationKey,
                                       FormatBool(TRUE))]
          /\ pc' = "commit"
          /\ UNCHANGED <<result, loop, blocks, categories, category_blocks,
                         system_settings, closes, openRows, commits>>
    /\ UNCHANGED stmts /\ Frame

runUniqueIDsMigration_Commit ==
    /\ pc = "commit" /\ migration = "unique"
    /\ \/ /\ CommitOK
          /\ Return("nil")
       \/ /\ CommitFail
          /\ Return("cannot commit unique IDs transaction")
    /\ UNCHANGED stmts /\ Frame

runUniqueIDsMigration ==
    \/ Invoke("unique")
    \/ runUniqueIDsMigration_ensureMigrations
    \/ runUniqueIDsMigration_GetSystemSetting
    \/ runUniqueIDsMigration_BeginTx
    \/ runUniqueIDsMigration_getBlocksWithSameID
    \/ runUniqueIDsMigration_rangeBlocksByID
    \/ runUniqueIDsMigration_replaceBlockID
    \/ runUniqueIDsMigration_setSystemSetting
    \/ runUniqueIDsMigration_Commit

\* ------------------------------------------- runCategoryUuidIdMigration
\* getIDs: the ids of the first n rows of the table, n being the number of
\* times rows.Next() returned true before the loop ended.
getIDs(tbl, n) == [i \in 1..n |-> tbl[i].id]

\* Mutant: the new id is the successor of the old one, which may be the old
\* id of another pair.
MapOldToNew_Successor(oldIDs, categoryIDs) ==
    [k \in Range(oldIDs) |-> k + 1]

\* Mutant: the new id is generated once, before the loop.
MapOldToNew_OneNewID(oldIDs, categoryIDs) ==
    [k \in Range(oldIDs) |-> NewID({})]

\* categoryIDs := map[string]string{}
\* for _, oldId := range oldCategoryIDs { categoryIDs[oldId] = utils.NewID(..) }
RECURSIVE MapOldToNew(_, _)
MapOldToNew(oldIDs, categoryIDs) ==
    IF oldIDs = <<>> THEN categoryIDs
    ELSE LET oldId == Head(oldIDs)
             newID == NewID(Range(categoryIDs))
         IN MapOldToNew(Tail(oldIDs),
                [k \in (DOMAIN categoryIDs) \cup {oldId} |->
                    IF k = oldId THEN newID ELSE categoryIDs[k]])

\* The pairs of the map still to be applied.
Without(categoryIDs, oldID) ==
    [k \in (DOMAIN categoryIDs) \ {oldID} |-> categoryIDs[k]]

\* UPDATE categories SET id = newID WHERE id = oldID
SetCategoriesID(tbl, oldID, newID) ==
    [i \in DOMAIN tbl |->
        IF tbl[i].id = oldID THEN [tbl[i] EXCEPT !.id = newID] ELSE tbl[i]]

\* Mutant: the second statement of updateCategoryID filters on the id column.
SetCategoryBlocksCategoryID_WhereID(tbl, oldID, newID) ==
    [i \in DOMAIN tbl |->
        IF tbl[i].id = oldID
        THEN [tbl[i] EXCEPT !.category_id = newID] ELSE tbl[i]]

\* UPDATE category_blocks SET category_id = newID WHERE category_id = oldID
SetCategoryBlocksCategoryID(tbl, oldID, newID) ==
    [i \in DOMAIN tbl |->
        IF tbl[i].category_id = oldID
        THEN [tbl[i] EXCEPT !.category_id = newID] ELSE tbl[i]]

\* Mutant: the second pass also rewrites category_id where it equals oldID.
SetCategoryBlocksID_Conflated(tbl, oldID, newID) ==
    [i \in DOMAIN tbl |->
        [id |-> IF tbl[i].id = oldID THEN newID ELSE tbl[i].id,
         category_id |-> IF tbl[i].category_id = oldID THEN newID
                         ELSE tbl[i].category_id]]

\* UPDATE category_blocks SET id = newID WHERE id = oldID
SetCategoryBlocksID(tbl, oldID, newID) ==
    [i \in DOMAIN tbl |->
        IF tbl[i].id = oldID THEN [tbl[i] EXCEPT !.id = newID] ELSE tbl[i]]

\* Mutant: the parsed flag is discarded, the migration never short-circuits.
categoryHasAlreadyRun_Discarded(setting) == FALSE

\* hasAlreadyRun, _ := strconv.ParseBool(setting)
categoryHasAlreadyRun(setting) == ParseBool(setting)

\* Mutant: the error of the schema gate is dropped.
runCategoryUuidIdMigration_ensureMigrations_ErrDropped ==
    /\ pc = "gate" /\ migration = "category"
    /\ pc' = "getSetting" /\ UNCHANGED <<result, loop>>
    /\ LeaveTx /\ UNCHANGED stmts /\ Frame

runCategoryUuidIdMigration_ensureMigrations ==
    /\ pc = "gate" /\ migration = "category"
    /\ IF ensureMigrationsAppliedUpToVersion(schemaVersion,
                                   categoriesUUIDIDMigrationRequiredVersion)
       THEN pc' = "getSetting" /\ UNCHANGED <<result, loop>>
       ELSE Return("schema version error")
    /\ LeaveTx /\ UNCHANGED stmts /\ Frame

runCategoryUuidIdMigration_GetSystemSetting ==
    /\ pc = "getSetting" /\ migration = "category"
    /\ \/ Return("cannot get migration state")
       \/ LET setting == GetSystemSetting(system_settings,
                                          CategoryUUIDIDMigrationKey)
          IN IF categoryHasAlreadyRun(setting)
             THEN Return("nil")
             ELSE /\ pc' = "beginTx"
                  /\ loop' = [loop EXCEPT !.setting = setting]
                  /\ UNCHANGED result
    /\ LeaveTx /\ UNCHANGED stmts /\ Frame

runCategoryUuidIdMigration_BeginTx ==
    /\ pc = "beginTx" /\ migration = "category"
    /\ \/ /\ Return("txErr")
          /\ UNCHANGED tx
       \/ /\ tx' = BeginTx
          /\ pc' = "updateCategoryIDs"
          /\ UNCHANGED <<result, loop>>
    /\ UNCHANGED <<blocks, categories, category_blocks, system_settings,
                   closes, openRows, commits, stmts>>
    /\ Frame

\* if err := s.updateCategoryIDs(tx); err != nil { return err }
\* if err := s.updateCategoryBlocksIDs(tx); err != nil { return err }
runCategoryUuidIdMigration_returnErr(err) ==
    /\ Return(err)
    /\ UNCHANGED <<blocks, categories, category_blocks, system_settings,
                   closes, openRows, commits>>

updateCategoryIDs_getIDs ==
    /\ pc = "updateCategoryIDs" /\ migration = "category"
    /\ stmts' = stmts + 1
    /\ \/ /\ runCategoryUuidIdMigration_returnErr("getIDs error")
          /\ UNCHANGED <<tx, rowsErr>>
       \/ /\ tx.categories # <<>>
          /\ runCategoryUuidIdMigration_returnErr("getIDs scan row error")
          /\ UNCHANGED <<tx, rowsErr>>
       \/ \E n \in 0..Len(tx.categories) :
            LET categoryIDs == MapOldToNew(getIDs(tx.categories, n), <<>>)
            IN /\ loop' = [loop EXCEPT !.categoryIDs = categoryIDs,
                                       !.builtMap = categoryIDs]
               /\ pc' = IF DOMAIN categoryIDs = {}
                        THEN "updateCategoryBlocksIDs" ELSE "updateCategoryID"
               /\ rowsErr' = (rowsErr \/ n < Len(tx.categories))
               /\ UNCHANGED result
               /\ LeaveTx
    /\ FrameButRows

\* updateCategoryID, first statement, for the next pair in map order.
updateCategoryID_categories ==
    /\ pc = "updateCategoryID" /\ migration = "category"
    /\ loop.oldID = 0
    /\ stmts' = stmts + 1
    /\ \E oldID \in DOMAIN loop.categoryIDs :
         LET newID == loop.categoryIDs[oldID]
             updated == [tx EXCEPT !.categories =
                            SetCategoriesID(tx.categories, oldID, newID)]
         IN \/ /\ runCategoryUuidIdMigration_returnErr(
                      "updateCategoryID update category error")
               /\ UNCHANGED tx
            \/ /\ runCategoryUuidIdMigration_returnErr(
                      "updateCategoryID error closing rows")
               /\ tx' = updated
            \/ /\ tx' = updated
               /\ loop' = [loop EXCEPT !.oldID = oldID]
               /\ UNCHANGED <<pc, result, blocks, categories, category_blocks,
                              system_settings, closes, openRows, commits>>
    /\ Frame

\* updateCategoryID, second statement, for the same pair.
updateCategoryID_category_blocks ==
    /\ pc = "updateCategoryID" /\ migration = "category"
    /\ loop.oldID # 0
    /\ stmts' = stmts + 1
    /\ LET oldID == loop.oldID
           newID == loop.categoryIDs[oldID]
           left == Without(loop.categoryIDs, oldID)
           updated == [tx EXCEPT !.category_blocks =
                          SetCategoryBlocksCategoryID(tx.category_blocks,
                                                      oldID, newID)]
       IN \/ /\ runCategoryUuidIdMigration_returnErr(
                    "updateCategoryID update category boards error")
             /\ UNCHANGED tx
          \/ /\ runCategoryUuidIdMigration_returnErr(
                    "updateCategoryID error closing rows")
             /\ tx' = updated
          \/ /\ tx' = updated
             /\ loop' = [loop EXCEPT !.oldID = 0, !.categoryIDs = left]
             /\ pc' = IF DOMAIN left = {}
                      THEN "updateCategoryBlocksIDs" ELSE "updateCategoryID"
             /\ UNCHANGED <<result, blocks, categories, category_blocks,
                            system_settings, closes, openRows, commits>>
    /\ Frame

updateCategoryBlocksIDs_getIDs ==
    /\ pc = "updateCategoryBlocksIDs" /\ migration = "category"
    /\ stmts' = stmts + 1
    /\ \/ /\ runCategoryUuidIdMigration_returnErr("getIDs error")
          /\ UNCHANGED <<tx, rowsErr>>
       \/ /\ tx.category_blocks # <<>>
          /\ runCategoryUuidIdMigration_returnErr("getIDs scan row error")
          /\ UNCHANGED <<tx, rowsErr>>
       \/ \E n \in 0..Len(tx.category_blocks) :
            LET categoryIDs == MapOldToNew(getIDs(tx.category_blocks, n), <<>>)
            IN /\ loop' = [loop EXCEPT !.categoryIDs = categoryIDs,
                                       !.builtMap = categoryIDs]
               /\ pc' = IF DOMAIN categoryIDs = {}
                        THEN "setSystemSetting" ELSE "updateCategoryBlocksID"
               /\ rowsErr' = (rowsErr \/ n < Len(tx.category_blocks))
               /\ UNCHANGED result
               /\ LeaveTx
    /\ FrameButRows

\* updateCategoryBlocksID for the next pair in map order; the result set of
\* its Query() is dropped without being closed.
updateCategoryBlocksID ==
    /\ pc = "updateCategoryBlocksID" /\ migration = "category"
    /\ stmts' = stmts + 1
    /\ \E oldID \in DOMAIN loop.categoryIDs :
         LET newID == loop.categoryIDs[oldID]
             left == Without(loop.categoryIDs, oldID)
         IN \/ /\ runCategoryUuidIdMigration_returnErr(
                      "updateCategoryBlocksID update category error")
               /\ UNCHANGED tx
            \/ /\ tx' = [tx EXCEPT !.category_blocks =
                            SetCategoryBlocksID(tx.category_blocks, oldID, newID)]
               /\ openRows' = openRows + 1
               /\ loop' = [loop EXCEPT !.categoryIDs = left]
               /\ pc' = IF DOMAIN left = {}
                        THEN "setSystemSetting" ELSE "updateCategoryBlocksID"
               /\ UNCHANGED <<result, blocks, categories, category_blocks,
                              system_settings, closes, commits>>
    /\ Frame

\* Mutant: the category migration marks the unique-IDs migration as completed.
runCategoryUuidIdMigration_setSystemSetting_UniqueKey ==
    /\ pc = "setSystemSetting" /\ migration = "category"
    /\ \/ /\ Rollback
          /\ Return("cannot mark migration as completed")
       \/ /\ tx' = [tx EXCEPT !.system_settings =
                      setSystemSetting(tx.system_settings,
                                       UniqueIDsMigrationKey,
                                       FormatBool(TRUE))]
          /\ pc' = "commit"
          /\ UNCHANGED <<result, loop, blocks, categories, category_blocks,
                         system_settings, closes, openRows, commits>>
    /\ UNCHANGED stmts /\ Frame

runCategoryUuidIdMigration_setSystemSetting ==
    /\ pc = "setSystemSetting" /\ migration = "category"
    /\ \/ /\ Rollback
          /\ Return("cannot mark migration as completed")
       \/ /\ tx' = [tx EXCEPT !.system_settings =
                      setSystemSetting(tx.system_settings,
                                       CategoryUUIDIDMigrationKey,
                                       FormatBool(TRUE))]
          /\ pc' = "commit"
          /\ UNCHANGED <<result, loop, blocks, categories, category_blocks,
                         system_settings, closes, openRows, commits>>
    /\ UNCHANGED stmts /\ Frame

runCategoryUuidIdMigration_Commit ==
    /\ pc = "commit" /\ migration = "category"
    /\ \/ /\ CommitOK
          /\ Return("nil")
       \/ /\ CommitFail
          /\ Return("cannot commit category IDs transaction")
    /\ UNCHANGED stmts /\ Frame

runCategoryUuidIdMigration ==
    \/ Invoke("category")
    \/ runCategoryUuidIdMigration_ensureMigrations
    \/ runCategoryUuidIdMigration_GetSystemSetting
    \/ runCategoryUuidIdMigration_BeginTx
    \/ updateCategoryIDs_getIDs
    \/ updateCategoryID_categories
    \/ updateCategoryID_category_blocks
    \/ updateCategoryBlocksIDs_getIDs
    \/ updateCategoryBlocksID
    \/ runCategoryUuidIdMigration_setSystemSetting
    \/ runCategoryUuidIdMigration_Commit

Next == runUniqueIDsMigration \/ runCategoryUuidIdMigration

Spec == Init /\ [][Next]_vars

\* ============================================================ properties
KeyOf(m) == IF m = "unique" THEN UniqueIDsMigrationKey
            ELSE CategoryUUIDIDMigrationKey

RequiredVersionOf(m) == IF m = "unique" THEN uniqueIDsMigrationRequiredVersion
                        ELSE categoriesUUIDIDMigrationRequiredVersion

FlagTrue(settings, key) == ParseBool(GetSystemSetting(settings, key))

GateOK(m) == schemaVersion >= RequiredVersionOf(m)

Invoked == migration # "none"

Returned == Invoked /\ pc = "idle"

\* The invocation that just returned made its transaction visible.
CommittedNow(m) ==
    /\ Returned /\ migration = m
    /\ FlagTrue(system_settings, KeyOf(m))
    /\ ~FlagTrue(pre.system_settings, KeyOf(m))

\* The errors of the steps between BeginTx and Commit.
StepErrors ==
    {"cannot get blocks with same ID", "cannot replace blockID",
     "cannot mark migration as completed", "getIDs error",
     "getIDs scan row error", "updateCategoryID update category error",
     "updateCategoryID error closing rows",
     "updateCategoryID update category boards error",
     "updateCategoryBlocksID update category error"}

\* A step after BeginTx failed in the invocation that returned.
StepFailed == Returned /\ (result \in StepErrors \/ rowsErr)

IDs(tbl) == {tbl[i].id : i \in DOMAIN tbl}

NoDuplicateIDs(tbl) == \A i, j \in DOMAIN tbl : tbl[i].id = tbl[j].id => i = j

SameIDRows(tbl, i) == {j \in DOMAIN tbl : tbl[j].id = tbl[i].id}

ReferentialIntegrity(cats, cbs) ==
    \A j \in DOMAIN cbs : cbs[j].category_id \in IDs(cats)

\* C1: when a step after BeginTx fails (duplicate scan, ID listing, an
\* UPDATE, the flag write), the committed tables and flags are what they
\* were when the migration was invoked.
C1_RollbackAtomicity == StepFailed => Database = pre

\* C2: every return after BeginTx succeeded is preceded by exactly one
\* Commit or Rollback: no invocation returns with its transaction open.
C2_TxClosedOnEveryExit ==
    (Returned /\ tx.state # "none") => (closes = 1 /\ tx.state # "open")

UniqueRewriteComplete == NoDuplicateIDs(blocks)

CategoryRewriteComplete ==
    /\ Len(categories) = Len(orig.categories)
    /\ Len(category_blocks) = Len(orig.category_blocks)
    /\ \A i \in DOMAIN categories : categories[i].id \notin IDs(orig.categories)
    /\ \A j \in DOMAIN category_blocks :
          /\ category_blocks[j].id \notin IDs(orig.category_blocks)
          /\ \E i \in DOMAIN categories :
                /\ orig.categories[i].id = orig.category_blocks[j].category_id
                /\ category_blocks[j].category_id = categories[i].id

\* C3: in every committed state a migration's flag is true only with its
\* whole rewrite committed, and the data differs from the original only
\* with the flag true.
C3_AtomicVisibility ==
    /\ IF FlagTrue(system_settings, UniqueIDsMigrationKey)
       THEN UniqueRewriteComplete
       ELSE blocks = orig.blocks
    /\ IF FlagTrue(system_settings, CategoryUUIDIDMigrationKey)
       THEN CategoryRewriteComplete
       ELSE categories = orig.categories
            /\ category_blocks = orig.category_blocks

\* C4: an invocation that finds its flag true opens no transaction, issues
\* no statement on the tables, leaves the database as it was and returns
\* nil once the gate passed and the flag was read.
C4_Idempotence ==
    (Invoked /\ FlagTrue(pre.system_settings, KeyOf(migration))) =>
        /\ tx.state = "none"
        /\ stmts = 0
        /\ Database = pre
        /\ (pc = "idle" /\ GateOK(migration)
              /\ result # "cannot get migration state") => result = "nil"

C4_Witness ==
    /\ Returned /\ result = "nil"
    /\ FlagTrue(pre.system_settings, KeyOf(migration))
    /\ Database # orig

DuplicatedIDs(tbl) == {tbl[i].id : i \in {k \in DOMAIN tbl :
                                           Cardinality(SameIDRows(tbl, k)) > 1}}

C6_ReferentialIntegrity == ReferentialIntegrity(categories, category_blocks)

\* The invocation failed between the two UPDATEs of one pair: its
\* transaction holds an orphaned category_blocks row.
C6_Witness ==
    /\ Returned /\ migration = "category"
    /\ result = "updateCategoryID update category boards error"
    /\ ~ReferentialIntegrity(tx.categories, tx.category_blocks)

\* C7: once runCategoryUuidIdMigration has committed, every categories row
\* has an id that no categories row had before, and every category_blocks
\* row references the new id of the row it referenced before.
C7_ReplacementAndPropagation ==
    CommittedNow("category") =>
        /\ Len(categories) = Len(pre.categories)
        /\ Len(category_blocks) = Len(pre.category_blocks)
        /\ \A i \in DOMAIN categories :
              categories[i].id \notin IDs(pre.categories)
        /\ \A j \in DOMAIN category_blocks :
              \E i \in DOMAIN categories :
                 /\ pre.categories[i].id = pre.category_blocks[j].category_id
                 /\ category_blocks[j].category_id = categories[i].id

FirstOf(S) == CHOOSE x \in S : \A y \in S : x <= y

C9_NonDuplicatesUntouched ==
    (Invoked /\ migration = "unique") =>
        /\ \A i \in DOMAIN pre.blocks :
              Cardinality(SameIDRows(pre.blocks, i)) = 1 =>
                 /\ blocks[i] = pre.blocks[i]
                 /\ tx.state = "open" => tx.blocks[i] = pre.blocks[i]
        /\ (pc = "idle" /\ result = "nil") =>
              FlagTrue(system_settings, UniqueIDsMigrationKey)

C9_Witness ==
    /\ CommittedNow("unique") /\ result = "nil"
    /\ \E i, j \in DOMAIN pre.blocks :
          /\ Cardinality(SameIDRows(pre.blocks, i)) = 1
          /\ Cardinality(SameIDRows(pre.blocks, j)) = 2
          /\ blocks[i] = pre.blocks[i]

\* C10: an invocation whose schema gate fails returns the gate's error
\* without reading the flag, opening a transaction or issuing a statement,
\* and a transaction is opened only after the gate passed and the flag
\* read as not completed.
C10_GateFirst ==
    Invoked =>
        /\ ~GateOK(migration) =>
              /\ pc \in {"gate", "idle"}
              /\ pc = "idle" => result = "schema version error"
              /\ tx.state = "none" /\ stmts = 0 /\ loop = NoLoop
              /\ Database = pre
        /\ tx.state # "none" =>
              /\ GateOK(migration)
              /\ ~FlagTrue(pre.system_settings, KeyOf(migration))

C10_Witness ==
    /\ Returned /\ migration = "category"
    /\ result = "schema version error"
    /\ schemaVersion >= uniqueIDsMigrationRequiredVersion
    /\ FlagTrue(system_settings, UniqueIDsMigrationKey)

\* C11: a committed completion flag that parses to true stays true at
\* every later step, the tables of its migration never change again, and
\* no migration's rewrite is committed more than once.
C11_AtMostOnce ==
    [][\A m \in {"unique", "category"} :
          /\ commits'[m] <= 1
          /\ FlagTrue(system_settings, KeyOf(m)) =>
                /\ FlagTrue(system_settings', KeyOf(m))
                /\ commits'[m] = commits[m]
                /\ (m = "unique") => blocks' = blocks
                /\ (m = "category") => /\ categories' = categories
                                       /\ category_blocks' = category_blocks]_vars

\* Both migrations have committed, and one of them was invoked again after
\* an invocation that failed with its flag already true.
C11_Witness ==
    /\ Returned
    /\ commits = [m \in {"unique", "category"} |-> 1]
    /\ FlagTrue(pre.system_settings, KeyOf(migration))
    /\ result = "cannot get migration state"

\* The errors of the steps before BeginTx succeeded.
EntryErrors == {"schema version error", "cannot get migration state", "txErr"}

\* The invocation that just returned had a step fail before its commit:
\* a reported error of the gate, the flag read, BeginTx or a step inside
\* the transaction, or a listing whose iteration ended on an error.
FailedBeforeCommit ==
    Returned /\ (result \in EntryErrors \cup StepErrors \/ rowsErr)

\* C12: after an invocation in which a step before the commit failed, the
\* flag that read false at invocation still reads false and the committed
\* data is unchanged, so that the next invocation re-runs the migration.
C12_RetryAfterFailure ==
    (FailedBeforeCommit /\ ~FlagTrue(pre.system_settings, KeyOf(migration)))
        => /\ ~FlagTrue(system_settings, KeyOf(migration))
           /\ Database = pre

\* A step that returns an error to the caller.
FailedStep == pc # "idle" /\ pc' = "idle" /\ result' # "nil"

\* Invocations of both migrations are repeated for ever and failures
\* eventually stop.
SpecRetry ==
    /\ Spec
    /\ WF_vars(Next)
    /\ SF_vars(Invoke("unique")) /\ SF_vars(Invoke("category"))
    /\ <>[][~FailedStep]_vars

\* The liveness half of C12: under SpecRetry every migration whose schema
\* gate passes eventually has a committed flag that reads true.
EventuallyCompleted ==
    \A m \in {"unique", "category"} :
        GateOK(m) => <>FlagTrue(system_settings, KeyOf(m))

\* C13: a stored flag that is absent, empty or does not parse to true
\* raises no error of its own: the step that reads it either reports the
\* failure of the read itself or goes on to open the transaction, with no
\* statement issued and nothing written; only a flag that parses to true
\* ends the invocation there with success.
C13_MalformedFlagIsNotCompleted ==
    [][pc = "getSetting" =>
         LET done == FlagTrue(system_settings, KeyOf(migration))
         IN /\ ~done => \/ pc' = "beginTx" /\ result' = "running"
                        \/ pc' = "idle" /\ result' = "cannot get migration state"
            /\ done => /\ pc' = "idle"
                       /\ result' \in {"nil", "cannot get migration state"}
            /\ Database' = Database /\ tx' = NoTx /\ stmts' = 0]_vars

\* The flag is stored with a value that cannot be parsed and the
\* invocation is about to open its transaction.
C13_Witness ==
    /\ pc = "beginTx"
    /\ KeyOf(migration) \in DOMAIN system_settings
    /\ GetSystemSetting(system_settings, KeyOf(migration)) = "garbage"

\* The error texts that carry the name of the failing step.
WrappedErrors ==
    {"cannot get migration state", "cannot get blocks with same ID",
     "cannot replace blockID", "cannot mark migration as completed",
     "cannot commit unique IDs transaction",
     "cannot commit category IDs transaction"}

\* C14: an invocation in which BeginTx, a listing, an update, the flag
\* write or the commit failed returns an error wrapped with the name of
\* the failing step; it never returns success.
C14_ErrorPropagation ==
    Returned =>
        /\ result \notin {"nil", "schema version error"} => result \in WrappedErrors
        /\ rowsErr => result # "nil"

\* The table a pass of the category migration lists, as it was before the
\* pass: category_blocks ids are not written before the second pass.
ListedBefore == IF pc = "updateCategoryID" THEN pre.categories
                ELSE pre.category_blocks

\* C15: the map built by updateCategoryIDs or updateCategoryBlocksIDs sends
\* distinct old ids to distinct new ids, every new id differs from every id
\* the listed table held before the pass, and rows that had distinct ids
\* before keep distinct ids at every point of the rewrite.
C15_MappingBijection ==
    (migration = "category" /\ tx.state = "open") =>
        /\ pc \in {"updateCategoryID", "updateCategoryBlocksID"} =>
              /\ \A a, b \in DOMAIN loop.builtMap :
                    loop.builtMap[a] = loop.builtMap[b] => a = b
              /\ \A a \in DOMAIN loop.builtMap :
                    loop.builtMap[a] \notin IDs(ListedBefore)
              /\ DOMAIN loop.builtMap \subseteq IDs(ListedBefore)
        /\ \A i, j \in DOMAIN pre.categories :
              pre.categories[i].id # pre.categories[j].id
                 => tx.categories[i].id # tx.categories[j].id
        /\ \A i, j \in DOMAIN pre.category_blocks :
              pre.category_blocks[i].id # pre.category_blocks[j].id
                 => tx.category_blocks[i].id # tx.category_blocks[j].id

\* Both passes mapped two ids and the second pass has rewritten its rows.
C15_Witness ==
    /\ migration = "category" /\ pc = "setSystemSetting"
    /\ Cardinality(DOMAIN loop.builtMap) = MaxCategoryBlocks
    /\ Len(pre.categories) = MaxCategories
    /\ \A i \in DOMAIN pre.categories : tx.categories[i].id # pre.categories[i].id
    /\ \A i \in DOMAIN pre.category_blocks :
          tx.category_blocks[i].id # pre.category_blocks[i].id

CategoryIDsOf(tbl) == [j \in DOMAIN tbl |-> tbl[j].category_id]

RowIDsOf(tbl) == [j \in DOMAIN tbl |-> tbl[j].id]

GetIDsErrors == {"getIDs error", "getIDs scan row error"}

\* C17: whenever a listing of getIDs failed, including a row iteration that
\* stopped early on an error, the invocation has returned an error of
\* getIDs: it does not go on with the list read so far.
C17_ListingFailureNotSilent ==
    rowsErr => (pc = "idle" /\ result \in GetIDsErrors)

\* What a migration may not touch, committed or inside a transaction: the
\* other migration's tables and the other migration's flag.
OtherKeyOf(m) == KeyOf(IF m = "unique" THEN "category" ELSE "unique")

FlagEntry(settings, key) ==
    IF key \in DOMAIN settings THEN <<settings[key]>> ELSE <<>>

ForeignTo(m, db) ==
    IF m = "unique"
    THEN <<db.categories, db.category_blocks,
           FlagEntry(db.system_settings, OtherKeyOf(m))>>
    ELSE <<db.blocks, FlagEntry(db.system_settings, OtherKeyOf(m))>>

ApplyMap(map, id) == IF id \in DOMAIN map THEN map[id] ELSE id

\* C19: whatever the order in which the pairs of the map were applied, at
\* the end of the first pass categories.id and category_blocks.category_id
\* are the ids before the pass with the whole map applied at once, and at
\* the end of the second pass category_blocks.id is.
C19_OrderIndependence ==
    (migration = "category" /\ tx.state = "open") =>
        /\ pc = "updateCategoryBlocksIDs" =>
              /\ \A i \in DOMAIN tx.categories :
                    tx.categories[i].id
                       = ApplyMap(loop.builtMap, pre.categories[i].id)
              /\ \A j \in DOMAIN tx.category_blocks :
                    /\ tx.category_blocks[j].category_id
                          = ApplyMap(loop.builtMap,
                                     pre.category_blocks[j].category_id)
                    /\ tx.category_blocks[j].id = pre.category_blocks[j].id
        /\ pc = "setSystemSetting" =>
              \A j \in DOMAIN tx.category_blocks :
                 tx.category_blocks[j].id
                    = ApplyMap(loop.builtMap, pre.category_blocks[j].id)

\* The first pass has applied a map of several pairs, one pair at a time.
C19_Witness ==
    /\ migration = "category" /\ pc = "updateCategoryBlocksIDs"
    /\ Cardinality(DOMAIN loop.builtMap) = MaxCategories
    /\ stmts = 1 + 2 * MaxCategories
    /\ \A i \in DOMAIN pre.categories :
          tx.categories[i].id = loop.builtMap[pre.categories[i].id]

\* C20: whenever the category migration is about to issue its next
\* statement or to commit, every result set of its earlier Query() calls
\* has been closed, and it never holds more than one open result set.
C20_ResultSetsClosed ==
    /\ (tx.state = "open" /\ pc # "idle") => openRows = 0
    /\ openRows <= 1

====
